---- MODULE Spec2Model ----
(***************************************************************************)
(* Omnisent dashboard: the client-side file-permission resolver            *)
(* (hooks/useFilePermissions.ts), the upload queue and the folder          *)
(* navigation of the files store (store/filesStore.ts), the JWT session    *)
(* manager (utils/token.ts, modules/auth/AuthContext.tsx), the request     *)
(* interceptor (services/api.ts) and the kanban store.                     *)
(*                                                                         *)
(* The specifications of the module:                                       *)
(*   SpecPerm     - one render of useFilePermissions                       *)
(*   SpecValidate - the pre-flight helpers of the hook                     *)
(*   SpecUpload   - uploadFiles / progress / resolve / reject / cancel     *)
(*   SpecRetry    - the upload queue with the retry button                 *)
(*   SpecCleanup  - the upload queue over a clock, with the cleanup timer  *)
(*   SpecBrowse   - navigation and loadFiles with requests in flight       *)
(*   SpecKanban   - addCard / moveCard / removeCard                        *)
(*   SpecToken    - decodeToken / isTokenExpired / isValidToken            *)
(*   SpecRequest  - the request interceptor                                *)
(*   SpecAuth     - login / logout / checkAuth / timers over a clock       *)
(*   SpecAuthFair - SpecAuth with timers and the clock scheduled fairly    *)
(***************************************************************************)
EXTENDS Integers, Sequences, FiniteSets, TLC

VARIABLES
    user,              \* AuthProvider state `user` (NoUser = null)
    file,              \* the FileItem handed to useFilePermissions (NoFile = null)
    systemPermissions, \* useMemo result, NotRendered before the first render
    filePermissions,   \* useMemo result, NotRendered before the first render
    validation,        \* last pre-flight query made through the hook's helpers
    uploadQueue,       \* filesStore.uploadQueue: UploadProgress[]
    uploading,         \* filesStore.uploading
    transfers,         \* one entry per apiClient.files.uploadFile call, by fileId
    batches,           \* one entry per uploadFiles call: where its async body stands
    retryLog,          \* the fileIds retryUpload has written to the console, in order
    currentPath,       \* useFilesStore: the folder shown, as its path segments
    breadcrumbs,       \* useFilesStore: one crumb per ancestor of currentPath
    shownFiles,        \* useFilesStore: files, the listing shown
    filesLoading,      \* useFilesStore: loading
    requests,          \* the getFiles calls of loadFiles, in the order issued
    columns,           \* useKanbanStore: the cards of each status, in order
    request,           \* the headers of the last request the interceptor let out
    now,               \* Date.now(), in milliseconds
    token,             \* localStorage['omnisent-jwt-token'] (NoToken = absent)
    storedUser,        \* localStorage['omnisent-user'] (NoUser = absent)
    isAuthenticated,   \* AuthProvider state
    loading,           \* AuthProvider state
    pathname,          \* window.location.pathname
    timers,            \* every timer armed by setupAutoLogout, in arming order
    nextCheck,         \* next firing of the periodic check's setInterval
    tokenCheck         \* last result of decodeToken / isTokenExpired / isValidToken

permVars == <<user, file, systemPermissions, filePermissions, validation>>

\* state of the client outside the hook, the upload queue and the session
browseVars == <<currentPath, breadcrumbs, shownFiles, filesLoading, requests>>

clientVars == <<retryLog, browseVars, columns, request>>

uploadVars == <<uploadQueue, uploading, transfers, batches, clientVars>>

authVars == <<now, token, storedUser, isAuthenticated, loading, pathname, timers,
              nextCheck, tokenCheck>>

vars == <<permVars, uploadVars, authVars>>

-----------------------------------------------------------------------------
(* Values standing for null / undefined / "not computed yet".              *)

NoUser == [null |-> "user"]

NoFile == [null |-> "file"]

NoPerms == [undefined |-> "permissions"]

NotRendered == [undefined |-> "useMemo"]

NoValidation == [undefined |-> "validation"]

-----------------------------------------------------------------------------
(* Bounded input domains.                                                  *)

Roles == {"admin", "user", "guest", "viewer"}

UserIds == {"u1", "u2"}

Users == [id : UserIds, role : Roles]

PermissionRecords == [read : BOOLEAN, write : BOOLEAN, delete : BOOLEAN, share : BOOLEAN]

Files ==
    [ownerId : UserIds, type : {"file", "folder"}, protected : BOOLEAN,
     shared : BOOLEAN, permissions : PermissionRecords \cup {NoPerms}]

-----------------------------------------------------------------------------
(* AuthContext.hasRole / isAdmin                                           *)

hasRole(u, role) ==
    IF u = NoUser THEN FALSE
    ELSE IF u.role = "admin" THEN TRUE
    ELSE u.role = role

isAdmin(u) == hasRole(u, "admin")

-----------------------------------------------------------------------------
(* File names are sequences of one-character strings, so that split('.')   *)
(* and toLowerCase() are computed and not assumed.                         *)

UpperCase == <<"A","B","C","D","E","F","G","H","I","J","K","L","M",
               "N","O","P","Q","R","S","T","U","V","W","X","Y","Z">>

LowerCase == <<"a","b","c","d","e","f","g","h","i","j","k","l","m",
               "n","o","p","q","r","s","t","u","v","w","x","y","z">>

toLowerCaseChar(c) ==
    IF \E i \in 1..Len(UpperCase) : UpperCase[i] = c
    THEN LowerCase[CHOOSE i \in 1..Len(UpperCase) : UpperCase[i] = c]
    ELSE c

toLowerCase(s) == [i \in 1..Len(s) |-> toLowerCaseChar(s[i])]

\* filename.split('.').pop(): the text after the last '.', the whole name
\* when it holds no '.'
splitPop(s) ==
    LET dots == {i \in 1..Len(s) : s[i] = "."}
        last == IF dots = {} THEN 0 ELSE CHOOSE i \in dots : \A j \in dots : j <= i
    IN  SubSeq(s, last + 1, Len(s))

AdminFileTypes == {<<"*">>}

UserFileTypes ==
    { <<"p","d","f">>, <<"d","o","c">>, <<"d","o","c","x">>, <<"t","x","t">>,
      <<"r","t","f">>, <<"o","d","t">>,
      <<"x","l","s">>, <<"x","l","s","x">>, <<"c","s","v">>, <<"o","d","s">>,
      <<"p","p","t">>, <<"p","p","t","x">>, <<"o","d","p">>,
      <<"j","p","g">>, <<"j","p","e","g">>, <<"p","n","g">>, <<"g","i","f">>,
      <<"s","v","g">>, <<"w","e","b","p">>,
      <<"z","i","p">>, <<"r","a","r">>, <<"7","z">>, <<"t","a","r">>, <<"g","z">>,
      <<"j","s">>, <<"t","s">>, <<"j","s","x">>, <<"t","s","x">>,
      <<"h","t","m","l">>, <<"c","s","s">>, <<"j","s","o","n">>, <<"x","m","l">>,
      <<"m","p","3">>, <<"w","a","v">>, <<"m","p","4">>, <<"a","v","i">>,
      <<"m","o","v">>, <<"w","e","b","m">> }

GuestFileTypes ==
    { <<"p","d","f">>, <<"t","x","t">>, <<"j","p","g">>, <<"j","p","e","g">>,
      <<"p","n","g">>, <<"g","i","f">> }

NoSystemPermissions ==
    [canAccessFiles |-> FALSE, canViewAllFiles |-> FALSE, canManageSystem |-> FALSE,
     maxUploadSize |-> 0, allowedFileTypes |-> {},
     canCreatePublicShares |-> FALSE, canCreatePasswordShares |-> FALSE,
     canSetExpirationDates |-> FALSE]

SystemPermissionsOf(u) ==
    IF u = NoUser THEN NoSystemPermissions
    ELSE IF isAdmin(u) THEN
        [canAccessFiles |-> TRUE, canViewAllFiles |-> TRUE, canManageSystem |-> TRUE,
         maxUploadSize |-> 1024, allowedFileTypes |-> AdminFileTypes,
         canCreatePublicShares |-> TRUE, canCreatePasswordShares |-> TRUE,
         canSetExpirationDates |-> TRUE]
    ELSE IF hasRole(u, "user") THEN
        [canAccessFiles |-> TRUE, canViewAllFiles |-> FALSE, canManageSystem |-> FALSE,
         maxUploadSize |-> 100, allowedFileTypes |-> UserFileTypes,
         canCreatePublicShares |-> TRUE, canCreatePasswordShares |-> TRUE,
         canSetExpirationDates |-> TRUE]
    ELSE IF hasRole(u, "guest") THEN
        [canAccessFiles |-> TRUE, canViewAllFiles |-> FALSE, canManageSystem |-> FALSE,
         maxUploadSize |-> 10, allowedFileTypes |-> GuestFileTypes,
         canCreatePublicShares |-> FALSE, canCreatePasswordShares |-> FALSE,
         canSetExpirationDates |-> FALSE]
    ELSE NoSystemPermissions

-----------------------------------------------------------------------------
(* filePermissions of useFilePermissions                                   *)

Capabilities ==
    {"canView", "canDownload", "canEdit", "canRename", "canDelete", "canMove",
     "canCopy", "canShare", "canUpload", "canCreateFolder", "canSetPermissions",
     "canViewHistory"}

AllFalse == [c \in Capabilities |-> FALSE]

AllTrue == [c \in Capabilities |-> TRUE]

hasExplicitPermissions(f) ==
    /\ f.permissions # NoPerms
    /\ (f.permissions.read \/ f.permissions.write \/ f.permissions.delete)

isSharedPublic(f) == f.shared /\ ~f.protected

OwnerGrant(u, f) ==
    [canView |-> TRUE, canDownload |-> TRUE, canEdit |-> TRUE, canRename |-> TRUE,
     canDelete |-> TRUE, canMove |-> TRUE, canCopy |-> TRUE,
     canShare |-> SystemPermissionsOf(u).canCreatePublicShares,
     canUpload |-> (f.type = "folder"), canCreateFolder |-> (f.type = "folder"),
     canSetPermissions |-> TRUE, canViewHistory |-> TRUE]

\* as if write access let a subject set permissions
ExplicitGrant_WriteSetsPermissions(u, f) ==
    [canView |-> f.permissions.read, canDownload |-> f.permissions.read,
     canEdit |-> f.permissions.write,
     canRename |-> (f.permissions.write /\ hasRole(u, "user")),
     canDelete |-> f.permissions.delete,
     canMove |-> (f.permissions.write /\ hasRole(u, "user")),
     canCopy |-> f.permissions.read,
     canShare |-> (f.permissions.share /\ SystemPermissionsOf(u).canCreatePublicShares),
     canUpload |-> (f.permissions.write /\ f.type = "folder"),
     canCreateFolder |-> (f.permissions.write /\ f.type = "folder"),
     canSetPermissions |-> f.permissions.write, canViewHistory |-> f.permissions.read]

ExplicitGrant(u, f) ==
    [canView |-> f.permissions.read, canDownload |-> f.permissions.read,
     canEdit |-> f.permissions.write,
     canRename |-> (f.permissions.write /\ hasRole(u, "user")),
     canDelete |-> f.permissions.delete,
     canMove |-> (f.permissions.write /\ hasRole(u, "user")),
     canCopy |-> f.permissions.read,
     canShare |-> (f.permissions.share /\ SystemPermissionsOf(u).canCreatePublicShares),
     canUpload |-> (f.permissions.write /\ f.type = "folder"),
     canCreateFolder |-> (f.permissions.write /\ f.type = "folder"),
     canSetPermissions |-> FALSE, canViewHistory |-> f.permissions.read]

SharedUserGrant ==
    [AllFalse EXCEPT !["canView"] = TRUE, !["canDownload"] = TRUE, !["canCopy"] = TRUE]

SharedGuestGrant_CopyToo ==
    [AllFalse EXCEPT !["canView"] = TRUE, !["canDownload"] = TRUE, !["canCopy"] = TRUE]

SharedGuestGrant ==
    [AllFalse EXCEPT !["canView"] = TRUE, !["canDownload"] = TRUE]

\* the if / else-if chain of lines 189-256
BaseGrant(u, f) ==
    IF f.ownerId = u.id THEN OwnerGrant(u, f)
    ELSE IF hasExplicitPermissions(f) THEN ExplicitGrant(u, f)
    ELSE IF isSharedPublic(f) /\ hasRole(u, "user") THEN SharedUserGrant
    ELSE IF isSharedPublic(f) /\ hasRole(u, "guest") THEN SharedGuestGrant
    ELSE AllFalse

ProtectedCleared == {"canEdit", "canRename", "canDelete", "canMove", "canShare",
                     "canSetPermissions"}

ApplyProtected_Skipped(u, f, permissions) == permissions

\* as if a protected file were always shown to a non-owner
ApplyProtected_GrantsView(u, f, permissions) ==
    IF f.protected /\ ~(f.ownerId = u.id) /\ ~isAdmin(u)
    THEN [c \in Capabilities |->
             IF c \in ProtectedCleared THEN FALSE
             ELSE IF c = "canView" THEN TRUE ELSE permissions[c]]
    ELSE permissions

ApplyProtected_OwnerToo(u, f, permissions) ==
    IF f.protected /\ ~isAdmin(u)
    THEN [c \in Capabilities |-> IF c \in ProtectedCleared THEN FALSE ELSE permissions[c]]
    ELSE permissions

\* "Apply protected file restrictions", lines 258-266
ApplyProtected(u, f, permissions) ==
    IF f.protected /\ ~(f.ownerId = u.id) /\ ~isAdmin(u)
    THEN [c \in Capabilities |-> IF c \in ProtectedCleared THEN FALSE ELSE permissions[c]]
    ELSE permissions

FilePermissionsOf_NoAdminBypass(u, f) ==
    IF u = NoUser \/ f = NoFile THEN AllFalse
    ELSE ApplyProtected(u, f, BaseGrant(u, f))

FilePermissionsOf(u, f) ==
    IF u = NoUser \/ f = NoFile THEN AllFalse
    ELSE IF isAdmin(u) THEN AllTrue
    ELSE ApplyProtected(u, f, BaseGrant(u, f))

-----------------------------------------------------------------------------
(* Pre-flight helpers of the hook: isFileTypeAllowed, isFileSizeAllowed,   *)
(* getMaxUploadSize, getRestrictedMessage.  They close over the rendered   *)
(* systemPermissions.                                                      *)

BytesPerMB == 1048576

GBThreshold == 1024

isFileTypeAllowed(sp, filename) ==
    IF <<"*">> \in sp.allowedFileTypes THEN TRUE
    ELSE LET extension == toLowerCase(splitPop(filename))
         IN  IF extension = <<>> THEN FALSE
             ELSE extension \in sp.allowedFileTypes

\* sizeInBytes / (1024 * 1024) <= maxUploadSize over the reals: the quotient
\* is below the ceiling, or equals it with nothing left over
isFileSizeAllowed(sp, sizeInBytes) ==
    LET whole == sizeInBytes \div BytesPerMB
        rest  == sizeInBytes % BytesPerMB
    IN  \/ whole < sp.maxUploadSize
        \/ whole = sp.maxUploadSize /\ rest = 0

\* `${(size / 1024).toFixed(1)}GB` or `${size}MB`; toFixed(1) kept as tenths
getMaxUploadSize(sp) ==
    LET size == sp.maxUploadSize
    IN  IF size >= GBThreshold
        THEN [tenths |-> (size * 20 + GBThreshold) \div (2 * GBThreshold), unit |-> "GB"]
        ELSE [tenths |-> size * 10, unit |-> "MB"]

NoMessage == [text |-> ""]

getRestrictedMessage(sp, filename, sizeInBytes) ==
    IF filename # <<>> /\ ~isFileTypeAllowed(sp, filename)
    THEN [text |-> "Tipo de archivo no permitido. Tipos permitidos: ",
          arg |-> sp.allowedFileTypes]
    ELSE IF sizeInBytes # 0 /\ ~isFileSizeAllowed(sp, sizeInBytes)
    THEN [text |-> "Archivo muy grande. Tamaño máximo: ", arg |-> getMaxUploadSize(sp)]
    ELSE NoMessage

FileNames ==
    { <<"a",".","j","p","g">>, <<"a",".","J","P","G">>, <<"a",".","z","i","p">>,
      <<"j","p","g">>, <<"z","i","p">>, <<"a",".">>, <<>>,
      <<"a",".","z","i","p",".","p","d","f">>, <<"a",".","p","d","f",".","z","i","p">>,
      <<".","g","i","f">>, <<"a",".","e","x","e">>, <<"a",".","*">> }

FileSizes ==
    { 0, 1, 3 * BytesPerMB, 10 * BytesPerMB, 10 * BytesPerMB + 1,
      11 * BytesPerMB - 1, 100 * BytesPerMB, 100 * BytesPerMB + 1,
      1024 * BytesPerMB, 1024 * BytesPerMB + 1 }

-----------------------------------------------------------------------------
(* utils/token.ts.  A token is kept by the features of its text that the   *)
(* decoder reads: the number of dot-separated segments, the alphabet and   *)
(* length of the payload segment, and what the decoded payload parses to.  *)

MsPerSecond == 1000

BufferSeconds == 30

CheckIntervalMs == 5 * 60 * MsPerSecond

NoToken == [null |-> "token"]

NullDecoded == [null |-> "decoded"]

NoCheck == [undefined |-> "tokenCheck"]

ExpSeconds == {0, 20, 65, 95, 400}

\* alphabet: "base64" = only A-Z a-z 0-9 + /; "base64url" = also holds - or _
\* (the JWT encoding, RFC 7515); "other" = holds a character of neither.
\* json: what JSON.parse makes of the decoded text.
Tokens ==
    [segments : {2, 3, 4}, alphabet : {"base64", "base64url", "other"},
     lenMod4 : 0..3, json : {"object", "null", "number", "invalid"},
     hasExp : BOOLEAN, exp : ExpSeconds]

\* '='.repeat((4 - payload.length % 4) % 4)
padCount(t) == (4 - (t.lenMod4 % 4)) % 4

\* atob(paddedPayload) throws on a character outside the base64 alphabet and
\* on more than two trailing '='
atobAccepts(t) == t.alphabet = "base64" /\ padCount(t) <= 2

decodeToken_AnySegments(t) ==
    IF t = NoToken THEN NullDecoded
    ELSE IF ~atobAccepts(t) THEN NullDecoded
    ELSE IF t.json \in {"invalid", "null"} THEN NullDecoded
    ELSE [hasExp |-> t.json = "object" /\ t.hasExp, exp |-> t.exp]

\* every throw (split on a missing token, atob, JSON.parse) is caught and
\* turned into null
decodeToken(t) ==
    IF t = NoToken THEN NullDecoded
    ELSE IF t.segments # 3 THEN NullDecoded
    ELSE IF ~atobAccepts(t) THEN NullDecoded
    ELSE IF t.json \in {"invalid", "null"} THEN NullDecoded
    ELSE [hasExp |-> t.json = "object" /\ t.hasExp, exp |-> t.exp]

\* !decoded || !decoded.exp
noExp(decoded) == decoded = NullDecoded \/ ~decoded.hasExp \/ decoded.exp = 0

isTokenExpired(t, currentTime) ==
    LET decoded == decodeToken(t)
    IN  IF noExp(decoded) THEN TRUE
        ELSE currentTime >= decoded.exp * MsPerSecond - BufferSeconds * MsPerSecond

Max(a, b) == IF a >= b THEN a ELSE b

\* Math.max(0, Math.floor((expirationTime - currentTime) / 1000))
getTokenTimeRemaining(t, currentTime) ==
    LET decoded == decodeToken(t)
    IN  IF noExp(decoded) THEN 0
        ELSE Max(0, (decoded.exp * MsPerSecond - currentTime) \div MsPerSecond)

isValidToken(stored, currentTime) ==
    IF stored = NoToken THEN FALSE ELSE ~isTokenExpired(stored, currentTime)

getUserFromToken(stored, currentTime) ==
    IF stored = NoToken \/ isTokenExpired(stored, currentTime) THEN NullDecoded
    ELSE decodeToken(stored)

\* the session state the other specifications run in: u is logged in
SessionOf(u) ==
    /\ now = 0
    /\ token = NoToken
    /\ storedUser = u
    /\ isAuthenticated = (u # NoUser)
    /\ loading = FALSE
    /\ pathname = "/dashboard"
    /\ timers = <<>>
    /\ nextCheck = CheckIntervalMs
    /\ tokenCheck = NoCheck

-----------------------------------------------------------------------------
(* The files store before any upload.                                      *)

\* the path "/a/b" is <<"a", "b">>, the root "/" is <<>>
Root == <<>>

\* updateBreadcrumbs(path)
updateBreadcrumbs(path) ==
    <<[name |-> "Home", path |-> Root]>> \o
        [i \in 1..Len(path) |-> [name |-> path[i], path |-> SubSeq(path, 1, i)]]

Statuses == {"pendiente", "haciendo", "terminado"}

NoRequest == [undefined |-> "request"]

ClientIdle ==
    /\ retryLog = <<>>
    /\ currentPath = Root
    /\ breadcrumbs = updateBreadcrumbs(Root)
    /\ shownFiles = {}
    /\ filesLoading = FALSE
    /\ requests = <<>>
    /\ columns = [st \in Statuses |-> <<>>]
    /\ request = NoRequest

UploadIdle ==
    /\ uploadQueue = <<>>
    /\ uploading = FALSE
    /\ transfers = <<>>
    /\ batches = <<>>
    /\ ClientIdle

-----------------------------------------------------------------------------
(* One mount of the hook: the two useMemo values are computed on render,   *)
(* then the helpers may be called.                                         *)

InitPerm ==
    /\ user \in Users \cup {NoUser}
    /\ file \in Files \cup {NoFile}
    /\ systemPermissions = NotRendered
    /\ filePermissions = NotRendered
    /\ validation = NoValidation
    /\ UploadIdle
    /\ SessionOf(user)

Render ==
    /\ filePermissions = NotRendered
    /\ systemPermissions' = SystemPermissionsOf(user)
    /\ filePermissions' = FilePermissionsOf(user, file)
    /\ UNCHANGED <<user, file, validation, uploadVars, authVars>>

\* FilesPage (part_011:429) mounts the hook without a file
InitValidate ==
    /\ user \in Users \cup {NoUser}
    /\ file = NoFile
    /\ systemPermissions = NotRendered
    /\ filePermissions = NotRendered
    /\ validation = NoValidation
    /\ UploadIdle
    /\ SessionOf(user)

Validate(filename, sizeInBytes) ==
    /\ systemPermissions # NotRendered
    /\ validation' =
          [filename |-> filename, sizeInBytes |-> sizeInBytes,
           typeAllowed |-> isFileTypeAllowed(systemPermissions, filename),
           sizeAllowed |-> isFileSizeAllowed(systemPermissions, sizeInBytes),
           message |-> getRestrictedMessage(systemPermissions, filename, sizeInBytes)]
    /\ UNCHANGED <<user, file, systemPermissions, filePermissions, uploadVars, authVars>>

NextPerm == Render

NextValidate ==
    \/ Render
    \/ \E n \in FileNames, s \in FileSizes : Validate(n, s)

SpecPerm == InitPerm /\ [][NextPerm]_vars

SpecValidate == InitValidate /\ [][NextValidate]_vars

-----------------------------------------------------------------------------
(* Claims about the permission resolver, checked under SpecPerm.           *)

Resolved == filePermissions # NotRendered /\ user # NoUser /\ file # NoFile

NonOwnerNonAdmin == user.role # "admin" /\ file.ownerId # user.id

OwnerNonAdmin == user.role # "admin" /\ file.ownerId = user.id

NoGrantingRecord ==
    \/ file.permissions = NoPerms
    \/ ~(file.permissions.read \/ file.permissions.write \/ file.permissions.delete)

ViewAndDownloadOnly ==
    \A c \in Capabilities : filePermissions[c] <=> c \in {"canView", "canDownload"}

\* C3: for a subject that is neither owner nor admin, on a protected
\* resource, canEdit, canRename, canDelete, canMove, canShare and
\* canSetPermissions are all false, whatever the explicit permission record
\* and the shared flag say.
C3_ProtectedRevokesNonOwner ==
    (Resolved /\ NonOwnerNonAdmin /\ file.protected) =>
        /\ ~filePermissions.canEdit
        /\ ~filePermissions.canRename
        /\ ~filePermissions.canDelete
        /\ ~filePermissions.canMove
        /\ ~filePermissions.canShare
        /\ ~filePermissions.canSetPermissions

C3_Witness ==
    /\ Resolved /\ NonOwnerNonAdmin /\ file.protected /\ file.shared
    /\ user.role = "user"
    /\ file.permissions # NoPerms
    /\ file.permissions.read /\ file.permissions.write
    /\ file.permissions.delete /\ file.permissions.share
    /\ filePermissions.canView /\ filePermissions.canCopy

\* C4 as stated: a guest who is not the owner gets exactly canView and
\* canDownload on every shared, unprotected resource, for every value of the
\* explicit permission record.
C4_GuestSharedAnyRecord ==
    (Resolved /\ user.role = "guest" /\ file.ownerId # user.id
        /\ file.shared /\ ~file.protected) => ViewAndDownloadOnly

\* C4 amended: a guest who is not the owner gets exactly canView and
\* canDownload on a shared, unprotected resource whose explicit permission
\* record grants none of read, write, delete; when the record grants one of
\* them the capabilities come from the record, so canCopy equals read.
C4_GuestSharedNoRecord ==
    (Resolved /\ user.role = "guest" /\ file.ownerId # user.id
        /\ file.shared /\ ~file.protected) =>
        IF NoGrantingRecord THEN ViewAndDownloadOnly
        ELSE filePermissions.canCopy = file.permissions.read

C4_Witness ==
    /\ Resolved /\ user.role = "guest" /\ file.ownerId # user.id
    /\ file.shared /\ ~file.protected
    /\ file.permissions # NoPerms /\ file.permissions.share /\ NoGrantingRecord
    /\ filePermissions.canView /\ filePermissions.canDownload
    /\ ~filePermissions.canCopy

\* C5: an admin has all twelve capabilities on every resource, whatever its
\* owner, protected flag, shared flag, kind and explicit permission record.
C5_AdminAllTrue ==
    (Resolved /\ user.role = "admin") => \A c \in Capabilities : filePermissions[c]

C5_Witness ==
    /\ Resolved /\ user.role = "admin" /\ file.ownerId # user.id
    /\ file.protected /\ ~file.shared /\ file.type = "file"
    /\ file.permissions # NoPerms /\ NoGrantingRecord
    /\ filePermissions.canSetPermissions /\ filePermissions.canUpload

ProtectionRevokesNothing ==
    filePermissions = FilePermissionsOf(user, [file EXCEPT !.protected = FALSE])

\* C6 as stated: the owner of a protected resource keeps everything,
\* including canShare, for every non-admin role.
C6_OwnerProtectedFull ==
    (Resolved /\ OwnerNonAdmin /\ file.protected) =>
        /\ ProtectionRevokesNothing
        /\ \A c \in {"canView", "canDownload", "canEdit", "canRename", "canDelete",
                     "canMove", "canCopy", "canShare", "canSetPermissions",
                     "canViewHistory"} : filePermissions[c]

\* C6 amended: the protected flag revokes nothing from a non-admin owner,
\* who has view, download, edit, rename, delete, move, copy, setPermissions
\* and viewHistory; canShare is granted exactly when the owner's role may
\* create public shares (user yes, guest no).
C6_OwnerProtectedShareByRole ==
    (Resolved /\ OwnerNonAdmin /\ file.protected) =>
        /\ ProtectionRevokesNothing
        /\ \A c \in {"canView", "canDownload", "canEdit", "canRename", "canDelete",
                     "canMove", "canCopy", "canSetPermissions",
                     "canViewHistory"} : filePermissions[c]
        /\ filePermissions.canShare = systemPermissions.canCreatePublicShares
        /\ systemPermissions.canCreatePublicShares = (user.role = "user")

C6_Witness ==
    /\ Resolved /\ OwnerNonAdmin /\ file.protected /\ user.role = "guest"
    /\ filePermissions.canEdit /\ filePermissions.canSetPermissions
    /\ ~filePermissions.canShare

\* the capability set of the grant branch, before the protected override
GrantBeforeOverride ==
    IF isAdmin(user) THEN AllTrue ELSE BaseGrant(user, file)

\* C19: the protected override only revokes: for every subject and resource
\* the capability set returned for a protected resource is a subset of the
\* set its grant branch computed before the override was applied; the
\* override sets no capability to true and changes nothing but the
\* capabilities it clears.
C19_ProtectedOverrideOnlyRevokes ==
    (Resolved /\ file.protected) =>
        \A c \in Capabilities :
            /\ filePermissions[c] => GrantBeforeOverride[c]
            /\ filePermissions[c] # GrantBeforeOverride[c] => c \in ProtectedCleared

\* a protected resource whose explicit record grants read and write to a
\* non-owner: edit is revoked, view is kept
C19_Witness ==
    /\ Resolved
    /\ file.protected
    /\ NonOwnerNonAdmin
    /\ GrantBeforeOverride["canEdit"]
    /\ ~filePermissions["canEdit"]
    /\ filePermissions["canView"]

\* C20: for a non-owner, non-admin subject on a resource carrying an explicit
\* permission record, each capability is mapped from the record: view,
\* download, copy, viewHistory = read; edit = write; delete = delete; share =
\* share and the role may create public shares; upload, createFolder = write
\* and the resource is a folder; setPermissions = false; rename, move = write
\* and role at least user.  The mapping applies whenever the record is
\* present, a record whose only true field is share included.  (Stated for
\* resources that are not protected, where no override follows the mapping.)
C20_ExplicitRecordMapping ==
    (Resolved /\ NonOwnerNonAdmin /\ file.permissions # NoPerms /\ ~file.protected) =>
        LET record == file.permissions
            atLeastUser == user.role \in {"user", "admin"}
        IN  /\ filePermissions["canView"] = record.read
            /\ filePermissions["canDownload"] = record.read
            /\ filePermissions["canCopy"] = record.read
            /\ filePermissions["canViewHistory"] = record.read
            /\ filePermissions["canEdit"] = record.write
            /\ filePermissions["canDelete"] = record.delete
            /\ filePermissions["canShare"] =
                   (record.share /\ systemPermissions.canCreatePublicShares)
            /\ filePermissions["canUpload"] = (record.write /\ file.type = "folder")
            /\ filePermissions["canCreateFolder"] = (record.write /\ file.type = "folder")
            /\ filePermissions["canSetPermissions"] = FALSE
            /\ filePermissions["canRename"] = (record.write /\ atLeastUser)
            /\ filePermissions["canMove"] = (record.write /\ atLeastUser)

\* C28: only the owner or an admin can ever obtain canSetPermissions: for every
\* subject, resource and permission record, canSetPermissions true implies
\* the subject is an admin or the subject's id is the resource's ownerId.
C28_SetPermissionsOwnerOrAdmin ==
    (filePermissions # NotRendered /\ filePermissions.canSetPermissions) =>
        /\ user # NoUser
        /\ file # NoFile
        /\ (user.role = "admin" \/ user.id = file.ownerId)

C28_Witness ==
    /\ filePermissions # NotRendered
    /\ filePermissions.canSetPermissions
    /\ user # NoUser /\ file # NoFile
    /\ user.role # "admin"
    /\ user.id = file.ownerId
    /\ file.permissions # NoPerms
    /\ ~file.permissions.write

-----------------------------------------------------------------------------
(* Claims about pre-flight validation, checked under SpecValidate.         *)

Validated == validation # NoValidation

HasDot(name) == \E i \in 1..Len(name) : name[i] = "."

RECURSIVE AfterLastDot(_)
\* the text after the last '.' of a name that holds one
AfterLastDot(name) ==
    IF name[Len(name)] = "." THEN <<>>
    ELSE Append(AfterLastDot(SubSeq(name, 1, Len(name) - 1)), name[Len(name)])

Lowered(text) ==
    [i \in 1..Len(text) |->
        IF \E k \in 1..26 : UpperCase[k] = text[i]
        THEN LowerCase[CHOOSE k \in 1..26 : UpperCase[k] = text[i]]
        ELSE text[i]]

\* C8: isFileTypeAllowed(name) is true iff the allow-list holds '*' or the
\* lower-cased text after the last dot of name, and isFileSizeAllowed(bytes)
\* is true iff bytes <= maxUploadSize * 1024 * 1024.
C8_ValidationMatchesLimits ==
    Validated =>
        /\ validation.typeAllowed <=>
              \/ <<"*">> \in systemPermissions.allowedFileTypes
              \/ /\ HasDot(validation.filename)
                 /\ Lowered(AfterLastDot(validation.filename))
                        \in systemPermissions.allowedFileTypes
        /\ validation.sizeAllowed <=>
              validation.sizeInBytes <= systemPermissions.maxUploadSize * 1024 * 1024

-----------------------------------------------------------------------------
(* Upload queue of the files store: uploadFiles, its progress callback,    *)
(* the settling of each transfer, the delayed clean-up, cancelUpload and   *)
(* retryUpload.                                                            *)

MaxTasks == 2

MaxRetries == 1

NoError == "undefined"

Terminal == {"completed", "error", "cancelled"}

\* candidate uploads: name and size in bytes
UploadCandidates ==
    { [name |-> <<"a",".","j","p","g">>, size |-> 3 * BytesPerMB],
      [name |-> <<"a",".","z","i","p">>, size |-> 11 * BytesPerMB] }

FileLists == UNION {[1..n -> UploadCandidates] : n \in 1..MaxTasks}

\* what the transport reports: loaded and total (0 when not computable)
ProgressEvents ==
    {e \in [loaded : {0, 1, 2}, total : {0, 2}] : e.total = 0 \/ e.loaded <= e.total}

UploadingUsers == {u \in Users : u.id = "u1" /\ u.role = "guest"}

\* Math.round(n / d) for n >= 0, d > 0: halves round up
MathRound(n, d) == (2 * n + d) \div (2 * d)

progressOf(progressEvent) ==
    MathRound(progressEvent.loaded * 100,
              IF progressEvent.total = 0 THEN 1 ELSE progressEvent.total)

\* {...item, ...patch}: the fields of patch override those of item
spread(item, patch) ==
    [f \in DOMAIN item |-> IF f \in DOMAIN patch THEN patch[f] ELSE item[f]]

\* as if the update were computed from the queue captured when the task was
\* created: the other tasks fall back to what they were then
mapQueue_StaleSnapshot(queue, fileId, patch) ==
    [i \in 1..Len(queue) |->
        IF queue[i].fileId = fileId THEN spread(queue[i], patch)
        ELSE [queue[i] EXCEPT !.progress = 0, !.status = "uploading", !.error = NoError]]

\* state.uploadQueue.map(item => item.fileId === fileId ? {...item, ...patch} : item)
mapQueue(queue, fileId, patch) ==
    [i \in 1..Len(queue) |->
        IF queue[i].fileId = fileId THEN spread(queue[i], patch) ELSE queue[i]]

RECURSIVE filterOutCompleted(_)
\* state.uploadQueue.filter(item => item.status !== 'completed')
filterOutCompleted(queue) ==
    IF queue = <<>> THEN <<>>
    ELSE IF Head(queue).status # "completed"
         THEN <<Head(queue)>> \o filterOutCompleted(Tail(queue))
         ELSE filterOutCompleted(Tail(queue))

newTask_Started(fileId, f) ==
    [fileId |-> fileId, fileName |-> f.name, progress |-> 1,
     status |-> "uploading", error |-> NoError]

newTask(fileId, f) ==
    [fileId |-> fileId, fileName |-> f.name, progress |-> 0,
     status |-> "uploading", error |-> NoError]

\* the request of one file: settledAt is the instant its promise settled
newTransfer(f, batch) ==
    [file |-> f, batch |-> batch, state |-> "pending", settledAt |-> 0]

InitUpload ==
    /\ user \in UploadingUsers
    /\ file = NoFile
    /\ systemPermissions = SystemPermissionsOf(user)
    /\ filePermissions = FilePermissionsOf(user, file)
    /\ validation = NoValidation
    /\ UploadIdle
    /\ SessionOf(user)

\* uploadFiles(files): every file is queued and its request issued before the
\* first await.  Both callers (handleDrop, handleFileUpload) pass a non-empty
\* list.
UploadFiles(files) ==
    /\ Len(transfers) + Len(files) <= MaxTasks
    /\ LET b == Len(batches) + 1
           base == Len(transfers)
       IN  /\ uploadQueue' = uploadQueue \o
                  [i \in 1..Len(files) |-> newTask(base + i, files[i])]
           /\ transfers' = transfers \o
                  [i \in 1..Len(files) |-> newTransfer(files[i], b)]
           /\ batches' = Append(batches, "running")
           /\ uploading' = TRUE
    /\ UNCHANGED <<permVars, authVars, clientVars>>

\* onUploadProgress of the request of fileId
OnUploadProgress(fileId, progressEvent) ==
    /\ fileId \in DOMAIN transfers
    /\ transfers[fileId].state = "pending"
    /\ uploadQueue' = mapQueue(uploadQueue, fileId, [progress |-> progressOf(progressEvent)])
    /\ UNCHANGED <<permVars, authVars, clientVars, uploading, transfers, batches>>

\* as if the mapped promises did not catch: the first rejection rejects
\* Promise.all and uploadFiles stops there
afterSettle_FailFast(fileId, outcome) ==
    LET b == transfers[fileId].batch
        settled == [transfers EXCEPT ![fileId].state = outcome,
                                     ![fileId].settledAt = now]
        allDone == \A k \in DOMAIN settled :
                       settled[k].batch = b => settled[k].state # "pending"
    IN  /\ transfers' = settled
        /\ batches' = IF outcome = "rejected" /\ batches[b] = "running"
                         THEN [batches EXCEPT ![b] = "rejected"]
                      ELSE IF allDone /\ batches[b] = "running"
                         THEN [batches EXCEPT ![b] = "cleanup-armed"]
                      ELSE batches
        /\ uploading' = IF allDone /\ batches[b] = "running" /\ outcome # "rejected"
                           THEN FALSE ELSE uploading

\* the rest of uploadFiles once the last transfer of its batch has settled:
\* the clean-up timer is armed and uploading is reset
afterSettle(fileId, outcome) ==
    LET b == transfers[fileId].batch
        settled == [transfers EXCEPT ![fileId].state = outcome,
                                     ![fileId].settledAt = now]
        allDone == \A k \in DOMAIN settled :
                       settled[k].batch = b => settled[k].state # "pending"
    IN  /\ transfers' = settled
        /\ batches' = IF allDone THEN [batches EXCEPT ![b] = "cleanup-armed"] ELSE batches
        /\ uploading' = IF allDone THEN FALSE ELSE uploading

markCompleted == [status |-> "completed", progress |-> 100]

\* as if the failed task were rebuilt instead of spread
markError_ResetsProgress == [status |-> "error", error |-> "Upload failed", progress |-> 0]

markError == [status |-> "error", error |-> "Upload failed"]

markCancelled == [status |-> "cancelled"]

\* the network call of fileId resolves
Resolve(fileId) ==
    /\ fileId \in DOMAIN transfers
    /\ transfers[fileId].state = "pending"
    /\ uploadQueue' = mapQueue(uploadQueue, fileId, markCompleted)
    /\ afterSettle(fileId, "resolved")
    /\ UNCHANGED <<permVars, authVars, clientVars>>

\* the network call of fileId rejects
Reject(fileId) ==
    /\ fileId \in DOMAIN transfers
    /\ transfers[fileId].state = "pending"
    /\ uploadQueue' = mapQueue(uploadQueue, fileId, markError)
    /\ afterSettle(fileId, "rejected")
    /\ UNCHANGED <<permVars, authVars, clientVars>>

\* the setTimeout of a settled batch fires
CleanupFire(b) ==
    /\ b \in DOMAIN batches
    /\ batches[b] = "cleanup-armed"
    /\ uploadQueue' = filterOutCompleted(uploadQueue)
    /\ batches' = [batches EXCEPT ![b] = "cleaned"]
    /\ UNCHANGED <<permVars, authVars, clientVars, uploading, transfers>>

\* cancelUpload(fileId)
CancelUpload(fileId) ==
    /\ fileId \in DOMAIN transfers
    /\ uploadQueue' = mapQueue(uploadQueue, fileId, markCancelled)
    /\ UNCHANGED <<permVars, authVars, clientVars, uploading, transfers, batches>>

\* retryUpload(fileId), offered by FileUpload on a task in error: logs the
\* fileId and returns
RetryUpload(fileId) ==
    /\ Len(retryLog) < MaxRetries
    /\ \E j \in DOMAIN uploadQueue :
          uploadQueue[j].fileId = fileId /\ uploadQueue[j].status = "error"
    /\ retryLog' = Append(retryLog, fileId)
    /\ UNCHANGED <<permVars, authVars, uploadQueue, uploading, transfers, batches,
                   browseVars, columns, request>>

NextUpload ==
    \/ \E files \in FileLists : UploadFiles(files)
    \/ \E fileId \in 1..MaxTasks, e \in ProgressEvents : OnUploadProgress(fileId, e)
    \/ \E fileId \in 1..MaxTasks : Resolve(fileId)
    \/ \E fileId \in 1..MaxTasks : Reject(fileId)
    \/ \E b \in 1..MaxTasks : CleanupFire(b)
    \/ \E fileId \in 1..MaxTasks : CancelUpload(fileId)

SpecUpload == InitUpload /\ [][NextUpload]_vars

\* the upload queue with the retry button of FileUpload
NextRetry ==
    \/ \E files \in FileLists : UploadFiles(files)
    \/ \E fileId \in 1..MaxTasks : Resolve(fileId)
    \/ \E fileId \in 1..MaxTasks : Reject(fileId)
    \/ \E b \in 1..MaxTasks : CleanupFire(b)
    \/ \E fileId \in 1..MaxTasks : CancelUpload(fileId)
    \/ \E fileId \in 1..MaxTasks : RetryUpload(fileId)

SpecRetry == InitUpload /\ [][NextRetry]_vars

-----------------------------------------------------------------------------
(* The upload queue with the clock: the clean-up timer of a call fires     *)
(* 3000 ms after the call's Promise.all has resolved.                      *)

CleanupDelayMs == 3000

UploadInstants == {1000, 2000, 3000, 4000, 5000}

\* setTimeout(..., 3000) is reached when the last transfer of the call settles
cleanupDeadline(b) ==
    LET last == CHOOSE k \in DOMAIN transfers :
                    /\ transfers[k].batch = b
                    /\ \A j \in DOMAIN transfers :
                           transfers[j].batch = b =>
                               transfers[j].settledAt <= transfers[k].settledAt
    IN  transfers[last].settledAt + CleanupDelayMs

\* the clean-up timer of call b fires at its deadline
CleanupTimeout(b) ==
    /\ b \in DOMAIN batches
    /\ batches[b] = "cleanup-armed"
    /\ now = cleanupDeadline(b)
    /\ CleanupFire(b)

\* time passes, up to the next pending clean-up deadline
UploadTick(t) ==
    /\ t > now
    /\ \A b \in DOMAIN batches :
           batches[b] = "cleanup-armed" => t <= cleanupDeadline(b)
    /\ now' = t
    /\ UNCHANGED <<permVars, uploadVars, token, storedUser, isAuthenticated, loading,
                   pathname, timers, nextCheck, tokenCheck>>

NextCleanup ==
    \/ \E files \in FileLists : UploadFiles(files)
    \/ \E fileId \in 1..MaxTasks : Resolve(fileId)
    \/ \E fileId \in 1..MaxTasks : Reject(fileId)
    \/ \E b \in 1..MaxTasks : CleanupTimeout(b)
    \/ \E fileId \in 1..MaxTasks : CancelUpload(fileId)
    \/ \E t \in UploadInstants \cup {cleanupDeadline(b) : b \in DOMAIN batches} :
           UploadTick(t)

SpecCleanup == InitUpload /\ [][NextCleanup]_vars

-----------------------------------------------------------------------------
(* Browsing: setCurrentPath, navigateToFolder, navigateUp, navigateToPath   *)
(* and loadFiles of useFilesStore, with the getFiles requests in flight.    *)

MaxRequests == 3

\* what the backend holds: folders a, a/b and c, the files a/b/f and c/g
Entries ==
    {[path |-> <<"a">>, type |-> "folder"],
     [path |-> <<"a", "b">>, type |-> "folder"],
     [path |-> <<"c">>, type |-> "folder"],
     [path |-> <<"a", "b", "f">>, type |-> "file"],
     [path |-> <<"c", "g">>, type |-> "file"]}

\* response.data of getFiles({path}); files is kept as a set, the order of
\* the array plays no part here
listing(path) ==
    {e \in Entries : Len(e.path) = Len(path) + 1 /\ SubSeq(e.path, 1, Len(path)) = path}

\* '/' + currentPath.split('/').filter(Boolean) without its last part
parentPath(path) == SubSeq(path, 1, Len(path) - 1)

\* loadFiles(path) up to its await: loading is set and the request issued
loadFilesStarted(path) ==
    /\ Len(requests) < MaxRequests
    /\ filesLoading' = TRUE
    /\ requests' = Append(requests, [path |-> path, state |-> "pending"])
    /\ shownFiles' = shownFiles

\* setCurrentPath(path)
setCurrentPath(path) ==
    /\ currentPath' = path
    /\ breadcrumbs' = updateBreadcrumbs(path)

browseFrame == UNCHANGED <<permVars, authVars, uploadQueue, uploading, transfers, batches,
                           retryLog, columns, request>>

\* loadFiles() with the default path: the mount effect and the refresh button
\* of the files page
LoadFiles ==
    /\ loadFilesStarted(currentPath)
    /\ UNCHANGED <<currentPath, breadcrumbs>>
    /\ browseFrame

\* navigateToFolder(folder), on a double click on a folder of the listing
NavigateToFolder(folder) ==
    /\ folder \in shownFiles
    /\ folder.type = "folder"
    /\ setCurrentPath(folder.path)
    /\ loadFilesStarted(folder.path)
    /\ browseFrame

\* navigateUp()
NavigateUp ==
    /\ currentPath # Root
    /\ setCurrentPath(parentPath(currentPath))
    /\ loadFilesStarted(parentPath(currentPath))
    /\ browseFrame

\* navigateToPath(crumb.path), on a click on a breadcrumb
NavigateToPath(crumb) ==
    /\ crumb \in DOMAIN breadcrumbs
    /\ setCurrentPath(breadcrumbs[crumb].path)
    /\ loadFilesStarted(breadcrumbs[crumb].path)
    /\ browseFrame

\* the request r resolves: set({files: response.data || [], loading: false})
ResolveFiles(r) ==
    /\ r \in DOMAIN requests
    /\ requests[r].state = "pending"
    /\ requests' = [requests EXCEPT ![r].state = "resolved"]
    /\ shownFiles' = listing(requests[r].path)
    /\ filesLoading' = FALSE
    /\ UNCHANGED <<currentPath, breadcrumbs>>
    /\ browseFrame

\* the request r rejects: the catch sets loading to false
RejectFiles(r) ==
    /\ r \in DOMAIN requests
    /\ requests[r].state = "pending"
    /\ requests' = [requests EXCEPT ![r].state = "rejected"]
    /\ filesLoading' = FALSE
    /\ UNCHANGED <<currentPath, breadcrumbs, shownFiles>>
    /\ browseFrame

NextBrowse ==
    \/ LoadFiles
    \/ \E folder \in Entries : NavigateToFolder(folder)
    \/ NavigateUp
    \/ \E crumb \in 1..3 : NavigateToPath(crumb)
    \/ \E r \in 1..MaxRequests : ResolveFiles(r)
    \/ \E r \in 1..MaxRequests : RejectFiles(r)

SpecBrowse == InitUpload /\ [][NextBrowse]_vars

\* C27: the listing matches the current path after navigation: once two or
\* more loadFiles calls have been started and every response has arrived,
\* shownFiles is the listing of currentPath and loading is false.
C27_ListingMatchesCurrentPath ==
    (/\ Len(requests) >= 2
     /\ \A r \in DOMAIN requests : requests[r].state = "resolved") =>
        /\ shownFiles = listing(currentPath)
        /\ ~filesLoading

-----------------------------------------------------------------------------
(* useKanbanStore: addCard, moveCard and removeCard over the three columns. *)

MaxCards == 3

CardIds == 1..MaxCards

NoCard == [undefined |-> "card"]

\* column.filter(c => c.id !== cardId)
withoutCard(column, cardId) == SelectSeq(column, LAMBDA c : c.id # cardId)

\* column.find(c => c.id === cardId)
findCard(column, cardId) ==
    IF \E i \in DOMAIN column : column[i].id = cardId
    THEN column[CHOOSE i \in DOMAIN column :
                    /\ column[i].id = cardId
                    /\ \A j \in 1..(i - 1) : column[j].id # cardId]
    ELSE NoCard

addCard(cols, status, card) == [cols EXCEPT ![status] = Append(@, card)]

\* the object literal spreads the columns, then sets the key [from], then the
\* key [to]: with from = to the second assignment is the one that stays
moveCard(cols, from, to, cardId) ==
    LET card == findCard(cols[from], cardId)
    IN  IF card = NoCard THEN cols
        ELSE [st \in Statuses |->
                 IF st = to THEN Append(cols[to], card)
                 ELSE IF st = from THEN withoutCard(cols[from], cardId)
                 ELSE cols[st]]

removeCard(cols, status, cardId) == [cols EXCEPT ![status] = withoutCard(@, cardId)]

CardCount(cols, cardId) ==
    Cardinality({<<st, i>> \in Statuses \X (1..(MaxCards + 2)) :
                    i \in DOMAIN cols[st] /\ cols[st][i].id = cardId})

TotalCards(cols) ==
    Len(cols["pendiente"]) + Len(cols["haciendo"]) + Len(cols["terminado"])

kanbanFrame == UNCHANGED <<permVars, authVars, uploadQueue, uploading, transfers, batches,
                           retryLog, browseVars, request>>

\* addCard(status, card) with an id no card on the board has
AddCard(status, cardId) ==
    /\ TotalCards(columns) < MaxCards
    /\ CardCount(columns, cardId) = 0
    /\ columns' = addCard(columns, status, [id |-> cardId])
    /\ kanbanFrame

MoveCard(from, to, cardId) ==
    /\ TotalCards(columns) <= MaxCards
    /\ columns' = moveCard(columns, from, to, cardId)
    /\ kanbanFrame

RemoveCard(status, cardId) ==
    /\ columns' = removeCard(columns, status, cardId)
    /\ kanbanFrame

NextKanban ==
    \/ \E status \in Statuses, cardId \in CardIds : AddCard(status, cardId)
    \/ \E from \in Statuses, to \in Statuses, cardId \in CardIds : MoveCard(from, to, cardId)
    \/ \E status \in Statuses, cardId \in CardIds : RemoveCard(status, cardId)

SpecKanban == InitUpload /\ [][NextKanban]_vars

\* C30: the kanban store conserves cards: after any sequence of addCard (with
\* fresh ids), moveCard and removeCard every card id occurs at most once across
\* the three columns, and a call of moveCard(from, to, id) leaves the total
\* number of cards unchanged, from = to included, and changes nothing when
\* the card is not in the from column.
C30_KanbanConservesCards ==
    /\ \A cardId \in CardIds : CardCount(columns, cardId) <= 1
    /\ \A from \in Statuses, to \in Statuses, cardId \in CardIds :
          /\ TotalCards(moveCard(columns, from, to, cardId)) = TotalCards(columns)
          /\ findCard(columns[from], cardId) = NoCard =>
                 moveCard(columns, from, to, cardId) = columns

-----------------------------------------------------------------------------
(* Claims about the upload queue, checked under SpecUpload.                *)

\* C1: a task that has reached completed, error or cancelled never changes
\* status again, under any interleaving of progress callbacks, network
\* resolve / reject and cancelUpload calls.
C1_TerminalStatusAbsorbing ==
    [][\A i \in DOMAIN uploadQueue : \A j \in DOMAIN uploadQueue' :
          (uploadQueue[i].status \in Terminal
              /\ uploadQueue'[j].fileId = uploadQueue[i].fileId)
          => uploadQueue'[j].status = uploadQueue[i].status]_vars

\* C7: apiClient.files.uploadFile is invoked only for files that pass
\* isFileTypeAllowed and isFileSizeAllowed for the current role.
C7_OnlyValidFilesRequested ==
    \A fileId \in DOMAIN transfers :
        /\ isFileTypeAllowed(systemPermissions, transfers[fileId].file.name)
        /\ isFileSizeAllowed(systemPermissions, transfers[fileId].file.size)

\* C11: uploadFiles called with N files adds exactly N tasks to the upload
\* queue, each with status uploading and progress 0 at creation, and leaves
\* every task already in the queue unchanged.  (A call of uploadFiles is the
\* step that issues new requests.)
C11_UploadFilesAppendsNewTasks ==
    [][Len(transfers') > Len(transfers) =>
          LET N == Len(transfers') - Len(transfers)
          IN  /\ Len(uploadQueue') = Len(uploadQueue) + N
              /\ \A i \in DOMAIN uploadQueue : uploadQueue'[i] = uploadQueue[i]
              /\ \A i \in (Len(uploadQueue) + 1)..Len(uploadQueue') :
                     /\ uploadQueue'[i].status = "uploading"
                     /\ uploadQueue'[i].progress = 0]_vars

\* a second call of uploadFiles has appended its task behind a task of the
\* first call that has already left the uploading status
C11_Witness ==
    /\ Len(batches) = 2
    /\ Len(uploadQueue) = 2
    /\ uploadQueue[1].status \in Terminal
    /\ uploadQueue[2].status = "uploading"
    /\ uploadQueue[2].progress = 0
    /\ transfers[2].state = "pending"

StatusCount(status) ==
    Cardinality({i \in DOMAIN uploadQueue : uploadQueue[i].status = status})

OutcomeCount(state) ==
    Cardinality({k \in DOMAIN transfers : transfers[k].state = state})

AllSettled(b) ==
    \A k \in DOMAIN transfers :
        transfers[k].batch = b => transfers[k].state # "pending"

NothingCleaned == \A b \in DOMAIN batches : batches[b] # "cleaned"

\* C12: a failing transfer never aborts or alters its siblings: with no task
\* cancelled by the user, the queue holds exactly as many error tasks as
\* network calls have rejected and, until a clean-up removes them, exactly as
\* many completed tasks as network calls have resolved, in any order of
\* settling; and uploadFiles does not reject: once every transfer of a call
\* has settled, the call has gone on past Promise.all.
C12_FailureIsolatedPerTask ==
    /\ \A b \in DOMAIN batches :
           AllSettled(b) => batches[b] \in {"cleanup-armed", "cleaned"}
    /\ StatusCount("cancelled") = 0 =>
           /\ StatusCount("error") = OutcomeCount("rejected")
           /\ StatusCount("uploading") = OutcomeCount("pending")
           /\ StatusCount("completed") <= OutcomeCount("resolved")
           /\ NothingCleaned => StatusCount("completed") = OutcomeCount("resolved")

\* one call with two files: one transfer resolved, the other rejected
C12_Witness ==
    /\ Len(batches) = 1
    /\ batches[1] = "cleanup-armed"
    /\ OutcomeCount("resolved") = 1
    /\ OutcomeCount("rejected") = 1
    /\ StatusCount("completed") = 1
    /\ StatusCount("error") = 1

\* the task of fileId in a queue that holds it
TaskOf(queue, fileId) ==
    queue[CHOOSE j \in DOMAIN queue : queue[j].fileId = fileId]

\* C21: when a task's network call rejects, its status becomes error with an
\* error message attached and its progress keeps the last value reported
\* before the rejection; when the call resolves, its status becomes completed
\* and its progress is forced to 100.
C21_SettleOutcomeOnTask ==
    [][\A fileId \in DOMAIN transfers :
          (transfers[fileId].state = "pending" /\ transfers'[fileId].state # "pending") =>
              /\ \E j \in DOMAIN uploadQueue : uploadQueue[j].fileId = fileId
              /\ \E j \in DOMAIN uploadQueue' : uploadQueue'[j].fileId = fileId
              /\ LET before == TaskOf(uploadQueue, fileId)
                     after == TaskOf(uploadQueue', fileId)
                 IN  /\ transfers'[fileId].state = "rejected" =>
                            /\ after.status = "error"
                            /\ after.error = "Upload failed"
                            /\ after.progress = before.progress
                     /\ transfers'[fileId].state = "resolved" =>
                            /\ after.status = "completed"
                            /\ after.progress = 100]_vars

\* a transfer that had reported 50 % was rejected: its task is in error, with
\* the message, at 50 %
C21_Witness ==
    \E j \in DOMAIN uploadQueue :
        /\ transfers[uploadQueue[j].fileId].state = "rejected"
        /\ uploadQueue[j].status = "error"
        /\ uploadQueue[j].error = "Upload failed"
        /\ uploadQueue[j].progress = 50

\* C22: in every reachable state each task's progress is an integer between
\* 0 and 100 inclusive, for every progress event (loaded, total) the
\* transport can deliver, events whose total is 0 or missing included.
C22_ProgressWithinRange ==
    \A j \in DOMAIN uploadQueue :
        /\ uploadQueue[j].progress \in Int
        /\ uploadQueue[j].progress >= 0
        /\ uploadQueue[j].progress <= 100

\* the status a settled or pending request leaves on its task
StatusOfOutcome(state) ==
    CASE state = "pending" -> "uploading"
      [] state = "resolved" -> "completed"
      [] state = "rejected" -> "error"

\* C23: queue mutations are atomic copy-and-replace updates with no lost
\* updates: a progress, completion, failure or cancel update changes only the
\* task with the matching id and leaves all other tasks unchanged; when
\* several tasks settle in any order every one of those updates is reflected
\* in the queue (each task not cancelled by the user shows the outcome of its
\* own request); and the appends of a call started while another is running
\* are not lost.
C23_NoLostUpdates ==
    /\ [](\A i, j \in DOMAIN uploadQueue :
             /\ uploadQueue[i].fileId = uploadQueue[j].fileId => i = j
             /\ uploadQueue[i].status # "cancelled" =>
                    uploadQueue[i].status =
                        StatusOfOutcome(transfers[uploadQueue[i].fileId].state))
    /\ [][/\ (Len(transfers') = Len(transfers) /\ Len(uploadQueue') = Len(uploadQueue)) =>
               /\ \A i \in DOMAIN uploadQueue :
                      uploadQueue'[i].fileId = uploadQueue[i].fileId
               /\ Cardinality({i \in DOMAIN uploadQueue :
                                   uploadQueue'[i] # uploadQueue[i]}) <= 1
               /\ \A k \in DOMAIN transfers :
                      transfers'[k] # transfers[k] =>
                          \A i \in DOMAIN uploadQueue :
                              uploadQueue[i].fileId # k => uploadQueue'[i] = uploadQueue[i]
          /\ \A k \in DOMAIN transfers' :
                 k \notin DOMAIN transfers =>
                     /\ \E i \in DOMAIN uploadQueue' : uploadQueue'[i].fileId = k
                     /\ \A i \in DOMAIN uploadQueue : uploadQueue'[i] = uploadQueue[i]]_vars

\* two calls of uploadFiles, one file each, both in flight at once and then
\* settled: the first task shows its rejection, the second its completion
C23_Witness ==
    /\ Len(batches) = 2
    /\ Len(uploadQueue) = 2
    /\ uploadQueue[1].status = "error"
    /\ uploadQueue[1].progress = 50
    /\ uploadQueue[2].status = "completed"

\* C24: a transport failure is recoverable via retry: a call of retryUpload
\* on a task in status error leaves a transfer of that file in status
\* uploading again.
C24_RetryRestartsUpload ==
    [][\A fileId \in DOMAIN transfers :
          (retryLog' = Append(retryLog, fileId)
              /\ \E j \in DOMAIN uploadQueue :
                    uploadQueue[j].fileId = fileId /\ uploadQueue[j].status = "error") =>
              \E j \in DOMAIN uploadQueue' :
                  /\ uploadQueue'[j].fileName = transfers[fileId].file.name
                  /\ uploadQueue'[j].status = "uploading"]_vars

\* C26: the uploading flag reflects in-flight work across overlapping
\* batches: while any call of uploadFiles still has a transfer in flight,
\* uploading is true.
C26_UploadingWhileInFlight ==
    (\E fileId \in DOMAIN transfers : transfers[fileId].state = "pending") => uploading

InQueue(queue, fileId) == \E j \in DOMAIN queue : queue[j].fileId = fileId

\* C15: three seconds after a task reaches completed it is removed from the
\* queue automatically, measured from its own completion and not from the end
\* of its batch: a completed task is in the queue for 3000 ms and no longer,
\* and it leaves the queue at that instant; a task in error or cancelled is
\* never removed by the automatic clean-up.
C15_RemovedThreeSecondsAfterCompletion ==
    /\ [](\A i \in DOMAIN uploadQueue :
             uploadQueue[i].status = "completed" =>
                 now <= transfers[uploadQueue[i].fileId].settledAt + 3000)
    /\ [][\A i \in DOMAIN uploadQueue :
             /\ uploadQueue[i].status \in {"error", "cancelled"} =>
                    InQueue(uploadQueue', uploadQueue[i].fileId)
             /\ (uploadQueue[i].status = "completed"
                    /\ ~InQueue(uploadQueue', uploadQueue[i].fileId)) =>
                    now = transfers[uploadQueue[i].fileId].settledAt + 3000]_vars

-----------------------------------------------------------------------------
(* The token helpers applied to one stored token at one instant.           *)

CheckInstants == {0, 19999, 20000, 34999, 35000, 35001, 64999, 65000, 65001, 400000}

InitToken ==
    /\ user = NoUser
    /\ file = NoFile
    /\ systemPermissions = NotRendered
    /\ filePermissions = NotRendered
    /\ validation = NoValidation
    /\ UploadIdle
    /\ now \in CheckInstants
    /\ token \in Tokens \cup {NoToken}
    /\ storedUser = NoUser
    /\ isAuthenticated = FALSE
    /\ loading = FALSE
    /\ pathname = "/login"
    /\ timers = <<>>
    /\ nextCheck = CheckIntervalMs
    /\ tokenCheck = NoCheck

CheckToken ==
    /\ tokenCheck = NoCheck
    /\ tokenCheck' =
          [decoded |-> decodeToken(token),
           expired |-> isTokenExpired(token, now),
           remaining |-> getTokenTimeRemaining(token, now),
           valid |-> isValidToken(token, now)]
    /\ UNCHANGED <<permVars, uploadVars, now, token, storedUser, isAuthenticated,
                   loading, pathname, timers, nextCheck>>

NextToken == CheckToken

SpecToken == InitToken /\ [][NextToken]_vars

-----------------------------------------------------------------------------
(* Claims about the token helpers, checked under SpecToken.                *)

Checked == tokenCheck # NoCheck

\* a JWT: three segments, a base64url payload (with or without - and _) of a
\* possible length, that decodes to a JSON object with a numeric exp
WellFormedJWT ==
    /\ token # NoToken
    /\ token.segments = 3
    /\ token.alphabet \in {"base64", "base64url"}
    /\ token.lenMod4 # 1
    /\ token.json = "object"
    /\ token.hasExp

Malformed ==
    /\ token # NoToken
    /\ \/ token.segments # 3
       \/ token.alphabet = "other"
       \/ token.lenMod4 = 1
       \/ token.json = "invalid"

\* C9: for every well-formed token, isTokenExpired is true exactly when
\* now >= exp - 30 s (true when the expiry is past, false when it is more
\* than 30 s ahead); an absent token is treated as expired (isValidToken
\* false).
C9_ExpiredIffWithinBuffer ==
    Checked =>
        /\ WellFormedJWT => (tokenCheck.expired <=> now >= token.exp * 1000 - 30000)
        /\ token = NoToken => ~tokenCheck.valid

\* C10: for every malformed token (segment count other than three, payload
\* that is not valid base64, payload that is not valid JSON) decodeToken
\* returns null and isTokenExpired returns true.
C10_MalformedIsNullAndExpired ==
    (Checked /\ Malformed) =>
        /\ tokenCheck.decoded = NullDecoded
        /\ tokenCheck.expired
        /\ ~tokenCheck.valid

C10_Witness ==
    /\ Checked /\ Malformed
    /\ token.segments = 3 /\ token.alphabet = "base64" /\ token.lenMod4 = 0
    /\ token.json = "invalid" /\ token.hasExp /\ token.exp = 400 /\ now = 0
    /\ tokenCheck.decoded = NullDecoded /\ tokenCheck.expired

-----------------------------------------------------------------------------
(* The request interceptor of the axios instance.  No caller of the         *)
(* instance passes an Authorization header of its own.                      *)

NoAuthorization == [undefined |-> "Authorization"]

\* as if every stored token were attached
requestInterceptor_AnyStoredToken(stored, currentTime) ==
    IF stored # NoToken
    THEN [Authorization |-> [bearer |-> stored]]
    ELSE [Authorization |-> NoAuthorization]

\* the headers of the config the interceptor returns, with `stored` in storage
requestInterceptor(stored, currentTime) ==
    IF stored # NoToken /\ ~isTokenExpired(stored, currentTime)
    THEN [Authorization |-> [bearer |-> stored]]
    ELSE [Authorization |-> NoAuthorization]

\* a request is issued through the instance
SendRequest ==
    /\ request = NoRequest
    /\ request' = requestInterceptor(token, now)
    /\ UNCHANGED <<permVars, authVars, uploadQueue, uploading, transfers, batches,
                   retryLog, browseVars, columns>>

NextRequest == SendRequest

SpecRequest == InitToken /\ [][NextRequest]_vars

\* C29: the interceptor attaches an Authorization bearer header to a request
\* if and only if a token is stored and isTokenExpired(token) is false when the
\* request is issued; a token that is absent, malformed or within 30 seconds
\* of its expiry is never sent.
C29_BearerIffStoredAndFresh ==
    request # NoRequest =>
        /\ request.Authorization # NoAuthorization <=>
               (token # NoToken /\ ~isTokenExpired(token, now))
        /\ request.Authorization # NoAuthorization =>
               request.Authorization = [bearer |-> token]
        /\ (\/ token = NoToken
            \/ Malformed
            \/ token.hasExp /\ now >= token.exp * 1000 - 30000) =>
               request.Authorization = NoAuthorization

C29_Witness ==
    /\ request # NoRequest
    /\ token # NoToken /\ WellFormedJWT
    /\ token.exp = 65 /\ now = 34999
    /\ request.Authorization = [bearer |-> token]

-----------------------------------------------------------------------------
(* AuthProvider over a clock: login, logout, checkAuth on mount, the        *)
(* auto-logout timers, the periodic check and the 401 handler.  Timers are *)
(* punctual: the clock does not pass a pending deadline.                   *)

MaxTimers == 2

Instants == {0, 35000, 40000, 65000, 310000}

MaxNow == 400 * MsPerSecond

LoginTokens ==
    {t \in Tokens :
        /\ t.segments = 3 /\ t.lenMod4 = 0 /\ t.hasExp
        /\ \/ t.alphabet = "base64" /\ t.json = "object" /\ t.exp \in {20, 65, 400}
           \/ t.alphabet = "base64url" /\ t.json = "object" /\ t.exp = 400}
    \cup {t \in Tokens :
             /\ t.segments = 2 /\ t.lenMod4 = 0 /\ t.hasExp
             /\ t.alphabet = "base64" /\ t.json = "object" /\ t.exp = 400}

LoginUsers == {u \in Users : u.id = "u1" /\ u.role = "user"}

Armed(i) == timers[i].status = "armed"

Deadline(i) == timers[i].armedAt + timers[i].delay

\* as if only the token key were removed
clearedStorage_TokenOnly == /\ token' = NoToken
                            /\ storedUser' = storedUser

\* removeToken(), and so clearAuth(): both storage keys are removed
clearedStorage == /\ token' = NoToken
                  /\ storedUser' = NoUser

\* a page load destroys every pending timer of the page it replaces
unloaded(ts) ==
    [i \in 1..Len(ts) |->
        IF ts[i].status = "armed" THEN [ts[i] EXCEPT !.status = "destroyed"] ELSE ts[i]]

\* the mount effect's clean-up invokes the handle checkAuth returned:
\* clearTimeout of the timer checkAuth armed
cancelAutoLogout(ts) ==
    [i \in 1..Len(ts) |->
        IF ts[i].status = "armed" /\ ts[i].caller = "checkAuth"
        THEN [ts[i] EXCEPT !.status = "cancelled"] ELSE ts[i]]

\* as if the timer were armed for the time left to the 30-second buffer
setupAutoLogout_MinusBuffer(ts, stored, currentTime, caller) ==
    IF stored = NoToken \/ isTokenExpired(stored, currentTime) THEN ts
    ELSE Append(ts, [armedAt |-> currentTime,
                     delay |-> (getTokenTimeRemaining(stored, currentTime) - BufferSeconds)
                                  * MsPerSecond,
                     exp |-> decodeToken(stored).exp, caller |-> caller,
                     status |-> "armed", firedAt |-> 0, calls |-> 0, left |-> NoToken])

\* setupAutoLogout with `stored` in storage: the timers after the call
setupAutoLogout(ts, stored, currentTime, caller) ==
    IF stored = NoToken \/ isTokenExpired(stored, currentTime) THEN ts
    ELSE Append(ts, [armedAt |-> currentTime,
                     delay |-> getTokenTimeRemaining(stored, currentTime) * MsPerSecond,
                     exp |-> decodeToken(stored).exp, caller |-> caller,
                     status |-> "armed", firedAt |-> 0, calls |-> 0, left |-> NoToken])

\* the effect of lines 188-200 runs again when isAuthenticated changes
restartedCheck(was, is) == IF was # is THEN now + CheckIntervalMs ELSE nextCheck

\* The page has loaded and the mount effect has run checkAuth: on empty
\* storage (a stored token that is not valid is cleared, which gives the same
\* state), or on the stored session of a returning visitor.
InitAuth ==
    /\ file = NoFile
    /\ systemPermissions = NotRendered
    /\ filePermissions = NotRendered
    /\ validation = NoValidation
    /\ UploadIdle
    /\ now = 0
    /\ loading = FALSE
    /\ nextCheck = CheckIntervalMs
    /\ tokenCheck = NoCheck
    /\ \/ /\ token = NoToken
          /\ storedUser = NoUser
          /\ isAuthenticated = FALSE
          /\ user = NoUser
          /\ pathname = "/login"
          /\ timers = <<>>
       \/ /\ token \in {t \in LoginTokens : isValidToken(t, 0)}
          /\ storedUser \in LoginUsers
          /\ isAuthenticated = TRUE
          /\ user = storedUser
          /\ pathname = "/dashboard"
          /\ timers = setupAutoLogout(<<>>, token, 0, "checkAuth")

\* checkAuth() of the mount effect, on a freshly loaded page whose earlier
\* timers are `ts`
mountCheckAuth(ts) ==
    /\ loading' = FALSE
    /\ nextCheck' = now + CheckIntervalMs
    /\ IF token = NoToken \/ ~isValidToken(token, now)
       THEN /\ isAuthenticated' = FALSE
            /\ user' = NoUser
            /\ clearedStorage
            /\ timers' = ts
            /\ pathname' = "/login"
       ELSE IF getUserFromToken(token, now) # NullDecoded /\ storedUser # NoUser
       THEN /\ isAuthenticated' = TRUE
            /\ user' = storedUser
            /\ timers' = setupAutoLogout(ts, token, now, "checkAuth")
            /\ UNCHANGED <<token, storedUser, pathname>>
       ELSE /\ isAuthenticated' = FALSE
            /\ user' = NoUser
            /\ clearedStorage
            /\ timers' = ts
            /\ pathname' = "/login"

\* the user reloads the page
Reload ==
    /\ Len(timers) < MaxTimers
    /\ mountCheckAuth(unloaded(timers))
    /\ UNCHANGED <<file, systemPermissions, filePermissions, validation, uploadVars,
                   now, tokenCheck>>

\* React runs the clean-up of the effects and then the effects again, the
\* component state kept (the remount of StrictMode, a hot refresh)
Remount ==
    /\ Len(timers) < MaxTimers
    /\ mountCheckAuth(cancelAutoLogout(timers))
    /\ UNCHANGED <<file, systemPermissions, filePermissions, validation, uploadVars,
                   now, tokenCheck>>

\* login(token, userData), called by LoginPage
Login(tok, userData) ==
    /\ pathname = "/login"
    /\ Len(timers) < MaxTimers
    /\ token' = tok
    /\ storedUser' = userData
    /\ isAuthenticated' = TRUE
    /\ user' = userData
    /\ timers' = setupAutoLogout(timers, tok, now, "login")
    /\ nextCheck' = restartedCheck(isAuthenticated, TRUE)
    /\ UNCHANGED <<file, systemPermissions, filePermissions, validation, uploadVars,
                   now, loading, pathname, tokenCheck>>

\* logout(): off the login page it ends in window.location.href = '/login',
\* a page load that mounts AuthProvider again with empty storage
logout(ts) ==
    /\ clearedStorage
    /\ isAuthenticated' = FALSE
    /\ user' = NoUser
    /\ loading' = FALSE
    /\ pathname' = "/login"
    /\ IF pathname # "/login"
       THEN /\ timers' = unloaded(ts)
            /\ nextCheck' = now + CheckIntervalMs
       ELSE /\ timers' = ts
            /\ nextCheck' = restartedCheck(isAuthenticated, FALSE)

\* the user logs out
Logout ==
    /\ isAuthenticated
    /\ logout(timers)
    /\ UNCHANGED <<file, systemPermissions, filePermissions, validation, uploadVars,
                   now, tokenCheck>>

\* the setTimeout callback of setupAutoLogout: clearAuth(); onLogout()
TimerFire(i) ==
    /\ i \in DOMAIN timers
    /\ Armed(i)
    /\ now = Deadline(i)
    /\ logout([timers EXCEPT ![i].status = "fired", ![i].firedAt = now,
                             ![i].calls = @ + 1, ![i].left = NoToken])
    /\ UNCHANGED <<file, systemPermissions, filePermissions, validation, uploadVars,
                   now, tokenCheck>>

\* as if the interval callback only logged the expiry
PeriodicCheck_LogsOnly ==
    /\ now = nextCheck
    /\ nextCheck' = nextCheck + CheckIntervalMs
    /\ UNCHANGED <<user, token, storedUser, isAuthenticated, loading, pathname, timers>>
    /\ UNCHANGED <<file, systemPermissions, filePermissions, validation, uploadVars,
                   now, tokenCheck>>

\* the setInterval callback of lines 189-197
PeriodicCheck ==
    /\ now = nextCheck
    /\ IF isAuthenticated /\ (token = NoToken \/ ~isValidToken(token, now))
       THEN logout(timers)
       ELSE /\ nextCheck' = nextCheck + CheckIntervalMs
            /\ UNCHANGED <<user, token, storedUser, isAuthenticated, loading, pathname,
                           timers>>
    /\ UNCHANGED <<file, systemPermissions, filePermissions, validation, uploadVars,
                   now, tokenCheck>>

\* a 401 response (to any request, a refused sign-in included):
\* handleUnauthorized removes the token, dispatches 'auth:logout' (handled by
\* logout()) and redirects
Unauthorized ==
    /\ logout(timers)
    /\ UNCHANGED <<file, systemPermissions, filePermissions, validation, uploadVars,
                   now, tokenCheck>>

\* client-side navigation; ProtectedRoute sends an unauthenticated visitor
\* back to /login
Navigate(path) ==
    /\ path # pathname
    /\ path = "/dashboard" => isAuthenticated
    /\ pathname' = path
    /\ UNCHANGED <<permVars, uploadVars, now, token, storedUser, isAuthenticated,
                   loading, timers, nextCheck, tokenCheck>>

\* time passes, up to the next pending deadline
Tick(t) ==
    /\ t > now
    /\ t <= MaxNow
    /\ t <= nextCheck
    /\ \A i \in DOMAIN timers : Armed(i) => t <= Deadline(i)
    /\ now' = t
    /\ UNCHANGED <<permVars, uploadVars, token, storedUser, isAuthenticated, loading,
                   pathname, timers, nextCheck, tokenCheck>>

NextAuth ==
    \/ \E tok \in LoginTokens, u \in LoginUsers : Login(tok, u)
    \/ Logout
    \/ Reload
    \/ Remount
    \/ \E i \in 1..MaxTimers : TimerFire(i)
    \/ PeriodicCheck
    \/ Unauthorized
    \/ \E path \in {"/login", "/dashboard"} : Navigate(path)
    \/ \E t \in Instants \cup {nextCheck} \cup {Deadline(i) : i \in DOMAIN timers} : Tick(t)

SpecAuth == InitAuth /\ [][NextAuth]_vars

\* the clock advances, and the browser runs every timeout and interval
\* callback that has come due
TimePasses ==
    \E t \in Instants \cup {nextCheck} \cup {Deadline(i) : i \in DOMAIN timers} : Tick(t)

TimerFires == \E i \in 1..MaxTimers : TimerFire(i)

SpecAuthFair ==
    /\ InitAuth /\ [][NextAuth]_vars
    /\ WF_vars(TimePasses)
    /\ WF_vars(PeriodicCheck)
    /\ WF_vars(TimerFires)

-----------------------------------------------------------------------------
(* Claims about the session manager, checked under SpecAuth.               *)

JitterMs == 5 * MsPerSecond

\* C2: after login with a token expiring T seconds ahead (T > 30) the
\* auto-logout fires at T minus the 30-second buffer (for T = 65 s, within
\* 35-40 s of login), and when it fires the stored credential is cleared.
C2_FiresAtExpiryMinusBuffer ==
    \A i \in DOMAIN timers :
        timers[i].status = "fired" =>
            LET T == timers[i].exp * 1000 - timers[i].armedAt
                waited == timers[i].firedAt - timers[i].armedAt
            IN  /\ waited >= T - 30000
                /\ waited <= T - 30000 + JitterMs
                /\ timers[i].left = NoToken

\* C13: at most one auto-logout timer is pending at any time: after any
\* sequence of login, checkAuth and logout operations the number of armed,
\* not yet fired, not cancelled auto-logout timers never exceeds one.
C13_AtMostOneTimerPending ==
    Cardinality({i \in DOMAIN timers : Armed(i)}) <= 1

\* C14: setupAutoLogout, called with a stored non-expired token, arms one
\* one-shot timer for exactly getTokenTimeRemaining(token) seconds; when it
\* fires it clears the stored credentials and invokes the callback exactly
\* once; a timer whose cancellation handle was invoked before it fired never
\* fires, clears nothing and calls nothing; with no token or an expired token
\* no timer is armed.
C14_AutoLogoutTimerContract ==
    [][/\ Len(timers') >= Len(timers)
       /\ Len(timers') > Len(timers) =>
             /\ Len(timers') = Len(timers) + 1
             /\ token' # NoToken
             /\ ~isTokenExpired(token', now')
             /\ LET armed == timers'[Len(timers')]
                IN  /\ armed.status = "armed"
                    /\ armed.armedAt = now'
                    /\ armed.delay = getTokenTimeRemaining(token', now') * 1000
                    /\ armed.calls = 0
       /\ \A i \in DOMAIN timers :
             /\ timers[i].status \in {"cancelled", "fired"} => timers'[i] = timers[i]
             /\ timers'[i].calls # timers[i].calls =>
                   /\ timers[i].status = "armed"
                   /\ timers'[i].status = "fired"
                   /\ timers'[i].calls = 1
                   /\ now = timers[i].armedAt + timers[i].delay
                   /\ token' = NoToken
                   /\ storedUser' = NoUser
                   /\ ~isAuthenticated'
             /\ timers'[i].status = "fired" => timers'[i].calls = 1
             /\ timers'[i].status = "cancelled" => timers'[i].calls = 0]_vars

\* one timer has fired at its deadline, and the deadline of a cancelled timer
\* has passed without it firing
C14_Witness ==
    /\ \E i \in DOMAIN timers :
          /\ timers[i].status = "cancelled"
          /\ now > Deadline(i)
          /\ timers[i].calls = 0
    /\ \E i \in DOMAIN timers :
          /\ timers[i].status = "fired"
          /\ timers[i].firedAt = Deadline(i)

LoggedOut ==
    /\ token = NoToken
    /\ storedUser = NoUser
    /\ ~isAuthenticated
    /\ user = NoUser

\* a step in which logout() runs: asked by the user, by an auto-logout timer,
\* by the periodic check or by the 'auth:logout' event of a 401 response
LogoutInvoked ==
    \/ Logout
    \/ \E i \in DOMAIN timers : TimerFire(i)
    \/ PeriodicCheck /\ isAuthenticated /\ (token = NoToken \/ ~isValidToken(token, now))
    \/ Unauthorized

\* C16: logout is idempotent and safe under racing callers: whenever the
\* auto-logout timer, the periodic check or the 401 event invokes logout, in
\* any order and any number of times, the result is no stored token, no stored
\* user, isAuthenticated false and user null, and an invocation on a session
\* already logged out leaves that state as it is.
C16_LogoutIdempotent ==
    [][LogoutInvoked =>
          /\ LoggedOut'
          /\ LoggedOut => UNCHANGED <<token, storedUser, isAuthenticated, user>>]_vars

\* two auto-logout timers have both fired: the second ran logout on a session
\* the first had already logged out
C16_Witness ==
    /\ LoggedOut
    /\ \E i, j \in DOMAIN timers :
          /\ i # j
          /\ timers[i].status = "fired"
          /\ timers[j].status = "fired"

StoredTokenUnusable == token = NoToken \/ isTokenExpired(token, now)

\* C17: defense in depth: a periodic check that runs on an authenticated
\* session whose stored token is absent or expired forces logout; hence, with
\* the interval callback scheduled fairly, an authenticated session whose
\* token has expired is eventually logged out, also when no auto-logout timer
\* is there to fire.  (The check has to fall inside the modelled horizon.)
C17_PeriodicCheckForcesLogout ==
    /\ [][(PeriodicCheck /\ isAuthenticated /\ StoredTokenUnusable) => LoggedOut']_vars
    /\ (isAuthenticated /\ StoredTokenUnusable /\ nextCheck <= MaxNow) ~> ~isAuthenticated

\* the periodic check is due on an authenticated session whose token has
\* expired and that has no auto-logout timer pending
C17_Witness ==
    /\ isAuthenticated
    /\ token # NoToken
    /\ isTokenExpired(token, now)
    /\ \A i \in DOMAIN timers : ~Armed(i)
    /\ now = nextCheck

\* C18: storing a malformed token is treated as having no credential: while
\* the stored token is not three dot-separated segments the session is not
\* authenticated, isValidToken is false and no auto-logout timer has been
\* armed for it.
C18_MalformedTokenIsAbsent ==
    /\ []((token # NoToken /\ token.segments # 3) =>
             (~isAuthenticated /\ ~isValidToken(token, now)))
    /\ [][(token' # token /\ token' # NoToken /\ token'.segments # 3) =>
             Len(timers') = Len(timers)]_vars

\* C25: an auto-logout timer armed for an earlier credential never affects a
\* later session: when the timer of token A fires while a longer-lived token
\* B, still valid, is stored, B stays in storage and its session stays
\* logged in.
C25_StaleTimerSparesLaterSession ==
    [][\A i \in DOMAIN timers :
          (/\ Armed(i)
           /\ i \in DOMAIN timers'
           /\ timers'[i].status = "fired"
           /\ token # NoToken
           /\ decodeToken(token) # NullDecoded
           /\ decodeToken(token).exp > timers[i].exp
           /\ isValidToken(token, now)) =>
              /\ token' = token
              /\ isAuthenticated' = isAuthenticated]_vars

====
